---- MODULE Spec2Model ----
(***************************************************************************)
(* Model of winwin_cli/skills/cli.py: resolution of a skill spec, the      *)
(* recursive listing of the remote directory, the pooled download of the   *)
(* collected files, the cleanup of the temporary directory by the install  *)
(* and info commands, and the catalog of a repository's skills with the    *)
(* lookup of a skill by name.                                              *)
(*                                                                         *)
(* Strings are sequences of one-character strings, so that split, replace  *)
(* and join are computed the way Python computes them.                     *)
(***************************************************************************)
EXTENDS Integers, Sequences, FiniteSets, TLC

\* ---------------------------------------------------------------- bounds

\* Largest number of slash-separated segments of a generated skill spec.
MaxSegs == 6

\* Number of nodes of the remote tree (node 1 is the target of the fetch).
MaxNodes == 6

\* Number of nodes of the remote tree of a large download batch.
PoolNodes == 14

\* Number of entries of the repository root the catalog is listed from.
MaxCategories == 2

\* Number of entries of a category directory.
MaxSkills == 2

\* ThreadPoolExecutor(max_workers=10)
max_workers == 10

\* --------------------------------------------------------------- strings

Slash == <<"/">>

\* "https://github.com/"
GithubPrefix ==
    <<"h","t","t","p","s",":","/","/","g","i","t","h","u","b",".","c","o","m","/">>

\* "/tree/"
TreeSep == <<"/","t","r","e","e","/">>

\* s[i..] starts with p
IsPrefixAt(s, p, i) ==
    /\ i + Len(p) - 1 <= Len(s)
    /\ \A k \in 1..Len(p) : s[i + k - 1] = p[k]

\* str.startswith
StartsWith(s, p) == IsPrefixAt(s, p, 1)

\* sub in s
Contains(s, sub) == \E i \in 1..(Len(s) + 1) : IsPrefixAt(s, sub, i)

RECURSIVE SplitAcc(_, _, _, _)
SplitAcc(s, sep, i, cur) ==
    IF i > Len(s) THEN <<cur>>
    ELSE IF IsPrefixAt(s, sep, i)
         THEN <<cur>> \o SplitAcc(s, sep, i + Len(sep), <<>>)
         ELSE SplitAcc(s, sep, i + 1, Append(cur, s[i]))

\* str.split(sep): leftmost non-overlapping occurrences of sep, every one of them
Split(s, sep) == SplitAcc(s, sep, 1, <<>>)

RECURSIVE Join(_, _)
\* sep.join(parts)
Join(parts, sep) ==
    IF Len(parts) = 0 THEN <<>>
    ELSE IF Len(parts) = 1 THEN parts[1]
    ELSE parts[1] \o sep \o Join(Tail(parts), sep)

\* str.replace(old, new): every occurrence
Replace(s, old, new) == Join(Split(s, old), new)

\* parts[:-1]
Front(parts) == SubSeq(parts, 1, Len(parts) - 1)

\* parts[-1]
Last(parts) == parts[Len(parts)]

\* ------------------------------------------------------------ resolution

\* The exception raised by a failed unpacking: resolution returns None.
ResolveError == [ok |-> FALSE, owner |-> <<>>, repo |-> <<>>, path |-> <<>>, ref |-> <<>>]

\* owner, repo = repo_path.split("/") followed by the call of the download:
\* ValueError unless the split yields exactly two parts.
UnpackRepo(repo_path, skill_path, r) ==
    LET p == Split(repo_path, Slash)
    IN  IF Len(p) = 2
        THEN [ok |-> TRUE, owner |-> p[1], repo |-> p[2], path |-> skill_path, ref |-> r]
        ELSE ResolveError

\* skill_spec.startswith("https://github.com/")
ResolveUrl(spec, r) ==
    LET parts == Split(Replace(spec, GithubPrefix, <<>>), TreeSep)
        repo_path == parts[1]
    IN  IF Len(parts) > 1
        THEN LET tail == Split(parts[2], Slash)
             IN  UnpackRepo(repo_path, Join(Tail(tail), Slash), tail[1])
        ELSE LET segs == Split(repo_path, Slash)
             IN  UnpackRepo(Join(Front(segs), Slash), Last(segs), r)

\* The mutant of ResolveSlash: --repo, when given, replaces the owner and
\* repository written in the spec.
ResolveSlashOverrideWins(spec, r, override, default) ==
    LET parts == Split(spec, Slash)
    IN  IF Len(parts) >= 3 /\ override = <<>>
        THEN [ok |-> TRUE, owner |-> parts[1], repo |-> parts[2],
              path |-> Join(SubSeq(parts, 3, Len(parts)), Slash), ref |-> r]
        ELSE IF override # <<>>
             THEN UnpackRepo(override, Join(SubSeq(parts, 3, Len(parts)), Slash), r)
             ELSE UnpackRepo(default, spec, r)

\* "/" in skill_spec
ResolveSlash(spec, r, override, default) ==
    LET parts == Split(spec, Slash)
    IN  IF Len(parts) >= 3
        THEN [ok |-> TRUE, owner |-> parts[1], repo |-> parts[2],
              path |-> Join(SubSeq(parts, 3, Len(parts)), Slash), ref |-> r]
        ELSE IF override # <<>>
             THEN UnpackRepo(override, spec, r)
             ELSE UnpackRepo(default, spec, r)

\* The mutant of ResolveBare: a bare name always goes to the default repository.
ResolveBareDefaultOnly(spec, r, override, default) == UnpackRepo(default, spec, r)

\* a bare skill name: repo_override or _get_default_skills_repo()
ResolveBare(spec, r, override, default) ==
    UnpackRepo(IF override # <<>> THEN override ELSE default, spec, r)

\* _resolve_and_download_skill, up to the call of _download_skill_from_github
ResolveSpec(spec, r, override, default) ==
    IF StartsWith(spec, GithubPrefix) THEN ResolveUrl(spec, r)
    ELSE IF Contains(spec, Slash) THEN ResolveSlash(spec, r, override, default)
    ELSE ResolveBare(spec, r, override, default)


\* ----------------------------------------------------------- remote tree

VARIABLE tree   \* the remote tree: node -> entry kind

\* The nodes of the remote tree.
Nodes == DOMAIN tree

\* The node whose directory lists node n: the target lists nodes 2 to 4,
\* node 3 lists node 5, node 5 lists node 6, and node 3 lists the nodes after.
Parent(n) == IF n <= 4 THEN 1 ELSE IF n = 6 THEN 5 ELSE 3

RECURSIVE Ascending(_)
\* The nodes of S in ascending order.
Ascending(S) ==
    IF S = {} THEN <<>>
    ELSE LET m == CHOOSE x \in S : \A y \in S : x <= y
         IN  <<m>> \o Ascending(S \ {m})

\* The children of node n, in the order the API lists them.
Children(n) == Ascending({ m \in Nodes : m > 1 /\ Parent(m) = n })

\* "SKILL.md" is the name of the first entry of the target directory.
Name(n) == IF n = 2 THEN "SKILL.md" ELSE ToString(n)

\* What the contents API answers for one node: its "type" and whether its
\* "download_url" is set (a submodule is listed as a file without one).
EntryKinds ==
    { [type |-> "file", has_url |-> TRUE],
      [type |-> "file", has_url |-> FALSE],
      [type |-> "dir", has_url |-> FALSE],
      [type |-> "symlink", has_url |-> TRUE] }

\* An error body: an object with a "message" and no "type".
MessageObject == [type |-> "none", has_url |-> FALSE, node |-> 0, name |-> "message"]

NoCall == [node |-> 0, local_dir |-> <<>>]


\* ----------------------------------------------------------------- state

VARIABLES
    cmd,                \* the command that runs: "install" or "info"
    skill_spec,         \* the skill_spec argument, a string
    spec_segs,          \* the segments skill_spec was written from
    spec_is_url,        \* whether skill_spec was written as a github.com URL
    ref,                \* the --branch argument
    repo_override,      \* the --repo argument, <<>> when not given
    default_repo,       \* what _get_default_skills_repo() returns
    flaky,              \* the nodes whose download can fail
    pc,                 \* where the command stands
    target,             \* owner, repo, path and ref passed to the download
    temp_dir,           \* "none", "exists" or "removed"
    result,             \* what _resolve_and_download_skill returned
    exit_code,          \* the exit status of the command, -1 while it runs
    call,               \* the listing request _collect_files is waiting for
    stack,              \* the frames of _collect_files waiting for a nested call
    files_to_download,  \* the jobs collected so far
    responses,          \* node -> the answer its listing request got
    futures,            \* job -> "queued", "running", "ok", "fail" or "cancelled"
    yields,             \* job -> how many times as_completed yielded it
    completed,          \* the loop's completed count
    failed,             \* the loop's failed count
    progress,           \* the completed count of the last progress line, 0 if none
    pos,                \* the category and the entry _list_github_skills stands at
    categories,         \* root entry -> "none", "file" or "dir"
    cat_responses,      \* category -> the answer its listing request got
    cat_items,          \* category -> entry -> "none", "file" or "dir"
    skill_responses,    \* category -> entry -> the answer its listing request got
    md_responses,       \* category -> entry -> the answer the manifest request got
    skills,             \* the skills list _list_github_skills has built so far
    all_skills,         \* what _list_github_skills returned
    found               \* what _find_skill_by_name returned, <<>> for None

inputs ==
    <<cmd, skill_spec, spec_segs, spec_is_url, ref, repo_override, default_repo, tree, flaky>>

walk == <<call, stack, files_to_download, responses>>

pool == <<futures, yields, completed, failed, progress>>

lookup ==
    <<pos, categories, cat_responses, cat_items, skill_responses, md_responses,
      skills, all_skills, found>>

vars == <<inputs, pc, target, temp_dir, result, exit_code, walk, pool, lookup>>

\* ---------------------------------------------------------------- listing

\* The entry the API returns for node n.
Entry(t, n) == [type |-> t[n].type, has_url |-> t[n].has_url, node |-> n, name |-> Name(n)]

\* The answers a listing request for node n can get: an HTTP or network error,
\* an error body, or the contents: a list for a directory, an object otherwise.
ResponsesFor(t, n) ==
    {"error", "message", IF t[n].type = "dir" THEN "list" ELSE "object"}

\* response.json()
Json(t, n, resp) ==
    IF resp = "list"
    THEN [is_list |-> TRUE, items |-> [k \in 1..Len(Children(n)) |-> Entry(t, Children(n)[k])]]
    ELSE IF resp = "object"
         THEN [is_list |-> FALSE, items |-> <<Entry(t, n)>>]
         ELSE [is_list |-> FALSE, items |-> <<MessageObject>>]

\* The mutant of ItemsOf: a response that is no list is dropped.
ItemsOfListOnly(json) == IF json.is_list THEN json.items ELSE <<>>

\* if not isinstance(items, list): items = [items]
ItemsOf(json) == json.items

\* The job of a file item found in local_dir: its download_url and file_path
\* (display_path is only printed).
Job(local_dir, item) ==
    [download_url |-> item.node, file_path |-> Append(local_dir, item.name)]

\* The mutant of WantsJob: every entry that is no directory gets a job.
WantsJobUnlessDir(item) == item.type # "dir"

\* if item.get("type") == "file": ... if download_url:
WantsJob(item) == item.type = "file" /\ item.has_url

RECURSIVE RunLoop(_, _, _, _, _)
\* The for loop of _collect_files from item k on, up to the next listing
\* request or to the return of the outermost call.
RunLoop(stk, local_dir, items, k, files) ==
    IF k > Len(items)
    THEN IF stk = <<>>
         THEN [stack |-> <<>>, call |-> NoCall, files |-> files]
         ELSE LET f == Last(stk)
              IN  RunLoop(Front(stk), f.local_dir, f.items, f.i + 1, files)
    ELSE LET item == items[k]
         IN  IF WantsJob(item)
             THEN RunLoop(stk, local_dir, items, k + 1, Append(files, Job(local_dir, item)))
             ELSE IF item.type = "dir"
                  THEN [stack |-> Append(stk, [local_dir |-> local_dir, items |-> items, i |-> k]),
                        call |-> [node |-> item.node, local_dir |-> Append(local_dir, item.name)],
                        files |-> files]
                  ELSE RunLoop(stk, local_dir, items, k + 1, files)

\* The mutant of CollectStep: a failed listing request is skipped like an
\* empty directory.
CollectStepSkipFailed(t, stk, cl, files, resp) ==
    LET items == IF resp = "error" THEN <<>> ELSE ItemsOf(Json(t, cl.node, resp))
        nxt == RunLoop(stk, cl.local_dir, items, 1, files)
    IN  [status |-> IF nxt.call # NoCall THEN "more"
                    ELSE IF nxt.files = <<>> THEN "empty" ELSE "submit",
         stack |-> nxt.stack, call |-> nxt.call, files |-> nxt.files]

\* One listing request of _collect_files and what follows it up to the next
\* request: "raise" (the exception leaves _collect_files), "more" (a nested
\* request is pending), "empty" (no file found) or "submit".
CollectStep(t, stk, cl, files, resp) ==
    IF resp = "error"
    THEN [status |-> "raise", stack |-> stk, call |-> cl, files |-> files]
    ELSE LET nxt == RunLoop(stk, cl.local_dir, ItemsOf(Json(t, cl.node, resp)), 1, files)
         IN  [status |-> IF nxt.call # NoCall THEN "more"
                         ELSE IF nxt.files = <<>> THEN "empty" ELSE "submit",
              stack |-> nxt.stack, call |-> nxt.call, files |-> nxt.files]

\* shutil.rmtree(temp_dir, ignore_errors=True) before _download_skill_from_github
\* returns None
AbortCleanup(td) == "removed"

\* The mutant of CommandCleanup: the directory is removed on success only.
CommandCleanupOnSuccess(td, code) == IF td = "exists" /\ code = 0 THEN "removed" ELSE td

\* the finally block of install and of info
CommandCleanup(td, code) == IF td = "exists" THEN "removed" ELSE td

\* ------------------------------------------------------------------ pool

\* executor.submit for every collected job
Submit(files) == [j \in 1..Len(files) |-> "queued"]

\* The mutant of FinishedFutures: a failed download cancels the queued jobs.
FinishedFuturesCancelling(fs, j, success) ==
    [i \in DOMAIN fs |-> IF i = j THEN (IF success THEN "ok" ELSE "fail")
                         ELSE IF ~success /\ fs[i] = "queued" THEN "cancelled"
                         ELSE fs[i]]

\* The outcome of _download_file for job j, recorded in its future.
FinishedFutures(fs, j, success) == [fs EXCEPT ![j] = IF success THEN "ok" ELSE "fail"]

\* The mutant of Yieldable: a finished future can be yielded again.
YieldableAgain(fs, ys) == { j \in DOMAIN fs : fs[j] \in {"ok", "fail"} }

\* The mutant of WorkerFree: every submitted job gets a thread of its own.
WorkerAlwaysFree(fs) == TRUE

\* A worker of the pool is idle, or the pool may still start one.
WorkerFree(fs) == Cardinality({ j \in DOMAIN fs : fs[j] = "running" }) < max_workers

\* What _download_file can return for a job: (True, ...) and, when the
\* download of its URL can fail, (False, ...).
Outcomes(job) == {TRUE} \cup (IF job.download_url \in flaky THEN {FALSE} ELSE {})

\* The futures as_completed can yield next: finished and not yet yielded.
Yieldable(fs, ys) == { j \in DOMAIN fs : fs[j] \in {"ok", "fail"} /\ ys[j] = 0 }

\* The progress line of one iteration (the new value of progress).
Report(success, done, total, last) ==
    IF success /\ (done % (IF total \div 10 > 1 THEN total \div 10 ELSE 1) = 0 \/ done = total)
    THEN done ELSE last

\* temp_dir / "SKILL.md" exists
ManifestExists(files, fs) ==
    \E j \in DOMAIN files : files[j].file_path = <<"SKILL.md">> /\ fs[j] = "ok"

\* --------------------------------------------------------------- catalog

\* The names of the entries of the repository root, in the order listed.
CategoryNames == << <<"y">>, <<"x">>, <<"w">>, <<"v">> >>

\* category_name = category["name"]
CatName(c) == CategoryNames[c]

\* The names of the entries of a category directory, in the order listed.
DirNames == << <<"a">>, <<"A","b">>, <<"a","a">> >>

\* item["name"]
DirName(s) == DirNames[s]

\* The name a manifest of kind "named" declares in its front matter.
DeclaredName == <<"b">>

\* The names a skill is looked up by.
SearchNames == { <<"a">>, <<"b">>, <<"B">> }

\* repo_override or _get_default_skills_repo()
Repo == IF repo_override # <<>> THEN repo_override ELSE default_repo

\* The code point of a character.
Ord(ch) ==
    CASE ch = "/" -> 47 [] ch = "A" -> 65 [] ch = "B" -> 66
      [] ch = "a" -> 97 [] ch = "b" -> 98 [] ch = "d" -> 100 [] ch = "e" -> 101
      [] ch = "v" -> 118 [] ch = "w" -> 119 [] ch = "x" -> 120 [] ch = "y" -> 121

\* str.lower()
Lower(str) ==
    [i \in 1..Len(str) |-> IF str[i] = "A" THEN "a"
                           ELSE IF str[i] = "B" THEN "b" ELSE str[i]]

\* a < b on strings
RECURSIVE StrLess(_, _)
StrLess(a, b) ==
    IF b = <<>> THEN FALSE
    ELSE IF a = <<>> THEN TRUE
    ELSE IF Ord(a[1]) < Ord(b[1]) THEN TRUE
    ELSE IF Ord(a[1]) > Ord(b[1]) THEN FALSE
    ELSE StrLess(Tail(a), Tail(b))

\* key=lambda x: (x.get("category", ""), x["name"])
KeyLess(x, y) ==
    \/ StrLess(x.category, y.category)
    \/ x.category = y.category /\ StrLess(x.name, y.name)

\* One step of the stable sort: e was listed after every element of sorted.
RECURSIVE InsertSorted(_, _)
InsertSorted(e, sorted) ==
    IF sorted = <<>> THEN <<e>>
    ELSE IF KeyLess(e, Head(sorted)) THEN <<e>> \o sorted
    ELSE <<Head(sorted)>> \o InsertSorted(e, Tail(sorted))

\* sorted(skills, key=...)
RECURSIVE SortedSkills(_)
SortedSkills(sk) ==
    IF sk = <<>> THEN <<>> ELSE InsertSorted(Last(sk), SortedSkills(Front(sk)))

\* metadata.get("name", item["name"]); the front matter of a "plain" manifest
\* declares no name (or there is none, or the request was not answered 200).
MetadataName(md, s) == IF md = "named" THEN DeclaredName ELSE DirName(s)

\* f"{repo}/{category_name}/{item['name']}"
SkillPath(repo, c, s) == repo \o Slash \o CatName(c) \o Slash \o DirName(s)

\* The dict appended to skills (the fields the lookup reads).
SkillEntry(repo, c, s, md) ==
    [name |-> MetadataName(md, s), category |-> CatName(c), path |-> SkillPath(repo, c, s)]

\* The next directory entry of the category after entry s, 0 when there is none.
NextSkill(s, its) ==
    LET later == { t \in (s + 1)..MaxSkills : its[t] = "dir" }
    IN  IF later = {} THEN 0 ELSE CHOOSE t \in later : \A u \in later : t <= u

\* The next directory entry of the root after entry c, 0 when there is none.
NextCategory(c, cats) ==
    LET later == { d \in (c + 1)..MaxCategories : cats[d] = "dir" }
    IN  IF later = {} THEN 0 ELSE CHOOSE d \in later : \A u \in later : d <= u

\* The first skill the two loops of _find_skill_by_name stop at, 0 when
\* neither does: an equal name first, then a name containing skill_name
\* whatever the case.
MatchIndex(all, skill_name) ==
    LET exact == { i \in DOMAIN all : all[i].name = skill_name }
        fuzzy == { i \in DOMAIN all : Contains(Lower(all[i].name), Lower(skill_name)) }
    IN  IF exact # {} THEN CHOOSE i \in exact : \A j \in exact : i <= j
        ELSE IF fuzzy # {} THEN CHOOSE i \in fuzzy : \A j \in fuzzy : i <= j
        ELSE 0

\* _find_skill_by_name after the catalog was listed; <<>> stands for None.
FindSkillByName(all, skill_name, repo) ==
    LET i == MatchIndex(all, skill_name)
        last == IF all[i].name = skill_name THEN skill_name ELSE all[i].name
    IN  IF i = 0 THEN <<>>
        ELSE IF all[i].category # <<>>
             THEN repo \o Slash \o all[i].category \o Slash \o last
             ELSE repo \o Slash \o last

\* ------------------------------------------------------------------ init

\* The segments skill specs are written from: names, "tree" and the empty
\* segment of a doubled or trailing slash.
Segments == { <<"o">>, <<"m">>, <<"t","r","e","e">>, <<>> }

SegLists == UNION { [1..n -> Segments] : n \in 1..MaxSegs }

\* --repo: not given, well formed, or without a slash
Overrides == { <<>>, <<"x","/","y">>, <<"x">> }

\* The text of a skill spec written from its segments.
SpecText(segs, is_url) ==
    IF is_url THEN GithubPrefix \o Join(segs, Slash) ELSE Join(segs, Slash)

\* A target directory holding a file, the manifest and nothing else.
PlainTree ==
    [n \in 1..MaxNodes |-> IF n = 1 THEN [type |-> "dir", has_url |-> FALSE]
                     ELSE [type |-> "file", has_url |-> TRUE]]

\* Nothing resolved, listed or downloaded yet.
NothingDownloaded ==
    /\ target = ResolveError
    /\ temp_dir = "none"
    /\ result = "unset"
    /\ exit_code = -1
    /\ call = NoCall
    /\ stack = <<>>
    /\ files_to_download = <<>>
    /\ responses = [n \in Nodes |-> "none"]
    /\ futures = <<>>
    /\ yields = <<>>
    /\ completed = 0
    /\ failed = 0
    /\ progress = 0

\* No request of the catalog made yet.
NothingListed ==
    /\ pos = <<0, 0>>
    /\ categories = [c \in 1..MaxCategories |-> "none"]
    /\ cat_responses = [c \in 1..MaxCategories |-> "none"]
    /\ cat_items = [c \in 1..MaxCategories |-> [s \in 1..MaxSkills |-> "none"]]
    /\ skill_responses = [c \in 1..MaxCategories |-> [s \in 1..MaxSkills |-> "none"]]
    /\ md_responses = [c \in 1..MaxCategories |-> [s \in 1..MaxSkills |-> "none"]]
    /\ skills = <<>>
    /\ all_skills = <<>>
    /\ found = <<>>

InitRun ==
    /\ ref = <<"m">>
    /\ default_repo = <<"d","/","e">>
    /\ pc = "resolve"
    /\ NothingDownloaded
    /\ NothingListed

\* A command given a bare skill name, over every remote tree.
Init ==
    /\ cmd \in {"install", "info"}
    /\ spec_segs = << <<"m">> >>
    /\ spec_is_url = FALSE
    /\ skill_spec = SpecText(spec_segs, spec_is_url)
    /\ repo_override \in { <<>>, <<"x">> }
    /\ tree \in [1..MaxNodes -> EntryKinds]
    /\ flaky = DOMAIN tree
    /\ InitRun

\* Every skill spec, over one remote tree.
InitResolve ==
    /\ cmd = "install"
    /\ spec_segs \in SegLists
    /\ spec_is_url \in BOOLEAN
    /\ skill_spec = SpecText(spec_segs, spec_is_url)
    /\ repo_override \in Overrides
    /\ tree = PlainTree
    /\ flaky = DOMAIN tree
    /\ InitRun

\* A target of two nested directories whose other entries are files.
PoolTree ==
    [n \in 1..PoolNodes |-> IF n \in {1, 3, 5} THEN [type |-> "dir", has_url |-> FALSE]
                            ELSE [type |-> "file", has_url |-> TRUE]]

\* install of a skill of more files than the pool has workers; the download
\* of the manifest can fail.
InitPool ==
    /\ cmd = "install"
    /\ spec_segs = << <<"m">> >>
    /\ spec_is_url = FALSE
    /\ skill_spec = SpecText(spec_segs, spec_is_url)
    /\ repo_override = <<>>
    /\ tree = PoolTree
    /\ flaky = {2}
    /\ InitRun

\* A lookup of a skill by its bare name, as install and info start it.
InitCatalog ==
    /\ cmd \in {"install", "info"}
    /\ \E n \in SearchNames : spec_segs = <<n>>
    /\ spec_is_url = FALSE
    /\ skill_spec = SpecText(spec_segs, spec_is_url)
    /\ repo_override \in { <<>>, <<"x">> }
    /\ tree = PlainTree
    /\ flaky = {}
    /\ ref = <<"m">>
    /\ default_repo = <<"d","/","e">>
    /\ pc = "list_root"
    /\ NothingDownloaded
    /\ NothingListed

\* --------------------------------------------------------------- actions

\* _resolve_and_download_skill up to the first listing request of
\* _download_skill_from_github; a failed resolution returns None and the
\* command exits with status 1.
Resolve ==
    /\ pc = "resolve"
    /\ LET t == ResolveSpec(skill_spec, ref, repo_override, default_repo)
       IN  IF t.ok
           THEN /\ target' = t
                /\ temp_dir' = "exists"
                /\ call' = [node |-> 1, local_dir |-> <<>>]
                /\ pc' = "collect"
                /\ UNCHANGED <<result, exit_code>>
           ELSE /\ result' = "none"
                /\ exit_code' = 1
                /\ pc' = "done"
                /\ UNCHANGED <<target, temp_dir, call>>
    /\ UNCHANGED <<inputs, lookup, stack, files_to_download, responses, pool>>

\* One listing request of _collect_files. A raised exception and an empty file
\* list remove the temporary directory and return None; otherwise the walk
\* goes on or, when it is over, every collected job is submitted to the pool.
CollectFiles ==
    /\ pc = "collect"
    /\ \E resp \in ResponsesFor(tree, call.node) :
          LET s == CollectStep(tree, stack, call, files_to_download, resp)
          IN  /\ responses' = [responses EXCEPT ![call.node] = resp]
              /\ stack' = s.stack
              /\ call' = s.call
              /\ files_to_download' = s.files
              /\ IF s.status \in {"raise", "empty"}
                 THEN /\ temp_dir' = AbortCleanup(temp_dir)
                      /\ result' = "none"
                      /\ exit_code' = 1
                      /\ pc' = "done"
                      /\ UNCHANGED <<futures, yields>>
                 ELSE IF s.status = "submit"
                      THEN /\ futures' = Submit(s.files)
                           /\ yields' = [j \in 1..Len(s.files) |-> 0]
                           /\ pc' = "pool"
                           /\ UNCHANGED <<temp_dir, result, exit_code>>
                      ELSE UNCHANGED <<temp_dir, result, exit_code, pc, futures, yields>>
    /\ UNCHANGED <<inputs, lookup, target, completed, failed, progress>>

\* A free worker of the pool takes the job at the head of the work queue.
StartJob ==
    /\ pc = "pool"
    /\ WorkerFree(futures)
    /\ \E j \in DOMAIN futures :
          /\ futures[j] = "queued"
          /\ \A i \in DOMAIN futures : futures[i] = "queued" => j <= i
          /\ futures' = [futures EXCEPT ![j] = "running"]
    /\ UNCHANGED <<inputs, lookup, pc, target, temp_dir, result, exit_code, walk,
                   yields, completed, failed, progress>>

\* _download_file returns for one running job: (True, ...) or (False, ...).
FinishJob ==
    /\ pc = "pool"
    /\ \E j \in DOMAIN futures :
          /\ futures[j] = "running"
          /\ \E success \in Outcomes(files_to_download[j]) :
                futures' = FinishedFutures(futures, j, success)
    /\ UNCHANGED <<inputs, lookup, pc, target, temp_dir, result, exit_code, walk,
                   yields, completed, failed, progress>>

\* One iteration of the as_completed loop; after the last one the function
\* returns temp_dir to the command.
AsCompleted ==
    /\ pc = "pool"
    /\ \E j \in Yieldable(futures, yields) :
          LET success == futures[j] = "ok"
              total == Len(files_to_download)
          IN  /\ completed' = completed + 1
              /\ yields' = [yields EXCEPT ![j] = @ + 1]
              /\ progress' = Report(success, completed + 1, total, progress)
              /\ failed' = IF success THEN failed ELSE failed + 1
              /\ IF \A i \in DOMAIN yields' : yields'[i] > 0
                 THEN /\ result' = "dir"
                      /\ pc' = "cmd_try"
                 ELSE UNCHANGED <<result, pc>>
    /\ UNCHANGED <<inputs, lookup, target, temp_dir, exit_code, walk, futures>>

\* The try block of install and of info up to the manifest check: without
\* SKILL.md the command exits with status 1; info prints and returns. The
\* finally block runs on the way out.
CommandInspect ==
    /\ pc = "cmd_try"
    /\ IF ~ManifestExists(files_to_download, futures)
       THEN /\ exit_code' = 1
            /\ temp_dir' = CommandCleanup(temp_dir, 1)
            /\ pc' = "done"
       ELSE IF cmd = "info"
            THEN /\ exit_code' = 0
                 /\ temp_dir' = CommandCleanup(temp_dir, 0)
                 /\ pc' = "done"
            ELSE /\ pc' = "cmd_install"
                 /\ UNCHANGED <<exit_code, temp_dir>>
    /\ UNCHANGED <<inputs, lookup, target, result, walk, pool>>

\* The platform prompt and _install_skill: it returns or raises, and the
\* finally block runs either way.
CommandInstall ==
    /\ pc = "cmd_install"
    /\ \E code \in {0, 1} :
          /\ exit_code' = code
          /\ temp_dir' = CommandCleanup(temp_dir, code)
    /\ pc' = "done"
    /\ UNCHANGED <<inputs, lookup, target, result, walk, pool>>

\* _list_github_skills returns all and _find_skill_by_name looks the name up.
Return(all) ==
    /\ pc' = "found"
    /\ pos' = <<0, 0>>
    /\ all_skills' = all
    /\ found' = FindSkillByName(all, skill_spec, Repo)

\* The loops of _list_github_skills move on to their next request after
\* entry s of category c, or the function returns the sorted list.
Advance(c, s, cats, its, sk) ==
    IF NextSkill(s, its) # 0
    THEN /\ pc' = "list_skill"
         /\ pos' = <<c, NextSkill(s, its)>>
         /\ UNCHANGED <<all_skills, found>>
    ELSE IF NextCategory(c, cats) # 0
         THEN /\ pc' = "list_category"
              /\ pos' = <<NextCategory(c, cats), 0>>
              /\ UNCHANGED <<all_skills, found>>
         ELSE Return(SortedSkills(sk))

\* repo.split("/") and the request for the repository root: a repo without
\* a slash, a failed request and an answer that is no list return [].
ListRoot ==
    /\ pc = "list_root"
    /\ \/ /\ Len(Split(Repo, Slash)) # 2
          /\ Return(<<>>)
          /\ UNCHANGED categories
       \/ /\ Len(Split(Repo, Slash)) = 2
          /\ \/ Return(<<>>) /\ UNCHANGED categories
             \/ \E cats \in [1..MaxCategories -> {"file", "dir"}] :
                   /\ categories' = cats
                   /\ Advance(0, MaxSkills, cats, cat_items[1], <<>>)
    /\ UNCHANGED <<cat_responses, cat_items, skill_responses, md_responses, skills>>
    /\ UNCHANGED <<inputs, target, temp_dir, result, exit_code, walk, pool>>

\* The request for a category directory: a failed request and an answer that
\* is no list skip the category.
ListCategory ==
    /\ pc = "list_category"
    /\ LET c == pos[1]
       IN  \/ \E r \in {"raise", "object"} :
                 /\ cat_responses' = [cat_responses EXCEPT ![c] = r]
                 /\ Advance(c, MaxSkills, categories, cat_items[c], skills)
                 /\ UNCHANGED cat_items
           \/ \E its \in [1..MaxSkills -> {"file", "dir"}] :
                 /\ cat_responses' = [cat_responses EXCEPT ![c] = "list"]
                 /\ cat_items' = [cat_items EXCEPT ![c] = its]
                 /\ Advance(c, 0, categories, its, skills)
    /\ UNCHANGED <<categories, skill_responses, md_responses, skills>>
    /\ UNCHANGED <<inputs, target, temp_dir, result, exit_code, walk, pool>>

\* The request for a directory of a category: a failed request and a listing
\* without SKILL.md skip the directory; one with SKILL.md is a skill.
ListSkill ==
    /\ pc = "list_skill"
    /\ LET c == pos[1]
           s == pos[2]
       IN  \/ \E r \in {"raise", "empty"} :
                 /\ skill_responses' = [skill_responses EXCEPT ![c][s] = r]
                 /\ Advance(c, s, categories, cat_items[c], skills)
           \/ /\ skill_responses' = [skill_responses EXCEPT ![c][s] = "manifest"]
              /\ pc' = "fetch_manifest"
              /\ UNCHANGED <<pos, all_skills, found>>
    /\ UNCHANGED <<categories, cat_responses, cat_items, md_responses, skills>>
    /\ UNCHANGED <<inputs, target, temp_dir, result, exit_code, walk, pool>>

\* The request for SKILL.md: a failed request skips the skill; front matter
\* that is no mapping has no get, and the error ends the function with [];
\* any other answer appends the skill.
FetchManifest ==
    /\ pc = "fetch_manifest"
    /\ LET c == pos[1]
           s == pos[2]
       IN  \E md \in {"raise", "plain", "named", "scalar"} :
              /\ md_responses' = [md_responses EXCEPT ![c][s] = md]
              /\ CASE md = "raise" ->
                        /\ skills' = skills
                        /\ Advance(c, s, categories, cat_items[c], skills)
                   [] md = "scalar" ->
                        /\ skills' = skills
                        /\ Return(<<>>)
                   [] OTHER ->
                        /\ skills' = Append(skills, SkillEntry(Repo, c, s, md))
                        /\ Advance(c, s, categories, cat_items[c],
                                   Append(skills, SkillEntry(Repo, c, s, md)))
    /\ UNCHANGED <<categories, cat_responses, cat_items, skill_responses>>
    /\ UNCHANGED <<inputs, target, temp_dir, result, exit_code, walk, pool>>

Next ==
    \/ Resolve
    \/ CollectFiles
    \/ StartJob
    \/ FinishJob
    \/ AsCompleted
    \/ CommandInspect
    \/ CommandInstall

Spec == Init /\ [][Next]_vars

\* The commands over a skill of more files than the pool has workers.
SpecPool == InitPool /\ [][Next]_vars

\* Resolution alone, over every skill spec.
SpecResolve == InitResolve /\ [][Resolve]_vars

\* The download batch is served by the pool's workers and by the loop of the
\* calling thread; every network call returns or times out after 30 seconds.
FairSpec ==
    /\ Spec
    /\ WF_vars(StartJob)
    /\ WF_vars(FinishJob)
    /\ WF_vars(AsCompleted)

\* The requests of _find_skill_by_name, through _list_github_skills.
NextCatalog ==
    \/ ListRoot
    \/ ListCategory
    \/ ListSkill
    \/ FetchManifest

\* The lookup of a skill by name in the catalog of a repository.
SpecCatalog == InitCatalog /\ [][NextCatalog]_vars

\* ---------------------------------------------------------------- claims

\* _download_skill_from_github returned temp_dir: the batch is over.
BatchOver == pc \in {"cmd_try", "cmd_install", "done"} /\ result = "dir"

\* The walk of _collect_files is over.
ListingOver == pc \in {"pool", "cmd_try", "cmd_install", "done"} /\ responses[1] # "none"

RECURSIVE Reach(_)
\* Node n is reachable from the target: every directory above it is one.
Reach(n) == n = 1 \/ (tree[Parent(n)].type = "dir" /\ Reach(Parent(n)))

RECURSIVE Listed(_)
\* Node n is the target or an entry of a directory listing that was received.
Listed(n) ==
    n = 1 \/ (tree[Parent(n)].type = "dir" /\ responses[Parent(n)] = "list" /\ Listed(Parent(n)))

RECURSIVE RelPath(_)
\* The names from the target down to node n.
RelPath(n) == IF n = 1 THEN <<>> ELSE Append(RelPath(Parent(n)), Name(n))

\* The nodes the collected jobs download.
JobNodes == { files_to_download[j].download_url : j \in DOMAIN files_to_download }

\* C1: every submitted job is yielded by the loop exactly once, whichever
\* jobs fail: at any moment no job was yielded twice, completed counts the
\* yielded jobs and failed the yielded jobs that failed, and when the batch is
\* over completed is the number of jobs and failed the number of failed jobs.
C1_OneOutcomePerJob ==
    futures # <<>> =>
        /\ DOMAIN futures = DOMAIN files_to_download
        /\ \A j \in DOMAIN futures : yields[j] <= 1
        /\ completed = Cardinality({ j \in DOMAIN futures : yields[j] > 0 })
        /\ failed = Cardinality({ j \in DOMAIN futures : yields[j] > 0 /\ futures[j] = "fail" })
        /\ BatchOver =>
              /\ completed = Len(files_to_download)
              /\ failed = Cardinality({ j \in DOMAIN futures : futures[j] = "fail" })

\* A batch of three jobs is over and exactly one of them failed.
C1_Witness == BatchOver /\ Len(files_to_download) = 3 /\ failed = 1

\* C2: under fair scheduling a submitted batch always drains: every job gets
\* an outcome and the batch completes, whichever jobs fail.
C2_BatchDrains ==
    (pc = "pool") ~>
        (BatchOver /\ \A j \in DOMAIN futures : futures[j] \in {"ok", "fail"})

\* A batch is over in which the first job failed and the second succeeded.
C2_Witness ==
    /\ BatchOver
    /\ Len(files_to_download) >= 2
    /\ futures[1] = "fail"
    /\ futures[2] = "ok"

\* C3: the temporary directory is gone whenever the download returned None
\* and whenever the command has returned control.
C3_TempDirRemoved ==
    /\ result = "none" => temp_dir # "exists"
    /\ pc = "done" => temp_dir # "exists"
    /\ temp_dir = "exists" => pc \in {"collect", "pool", "cmd_try", "cmd_install"}

\* install got a directory with its manifest, failed, and removed the directory.
C3_Witness ==
    /\ pc = "done"
    /\ cmd = "install"
    /\ result = "dir"
    /\ exit_code = 1
    /\ ManifestExists(files_to_download, futures)
    /\ temp_dir = "removed"

\* C4: no job is submitted before every reachable directory was listed, and
\* a failed listing request fails the fetch with no job submitted.
C4_ListingBeforeDownload ==
    /\ futures # <<>> =>
          /\ call = NoCall
          /\ stack = <<>>
          /\ \A n \in Nodes : responses[n] # "error"
          /\ \A n \in Nodes :
                (Listed(n) /\ tree[n].type = "dir") => responses[n] \in {"list", "message"}
    /\ (\E n \in Nodes : responses[n] = "error") =>
          /\ futures = <<>>
          /\ result = "none"
          /\ exit_code = 1
          /\ pc = "done"

\* The listing of a nested directory failed after a file had been collected.
C4_Witness ==
    /\ responses[3] = "error"
    /\ files_to_download # <<>>
    /\ pc = "done"

\* Every listing request got the contents it asked for.
AllListed == \A n \in Nodes : responses[n] \in {"none", "list", "object"}

\* C5 as stated: one job per reachable node that is no directory.
C5_OneJobPerNonDirectory ==
    (ListingOver /\ AllListed) =>
        /\ Len(files_to_download) = Cardinality({ n \in Nodes : Reach(n) /\ tree[n].type # "dir" })
        /\ \A n \in JobNodes : tree[n].type # "dir"

\* C5, amended: when every listing request succeeds there is exactly one job
\* per reachable node of type "file" that has a download_url, written to the
\* node's path below the temporary directory, and no job for any other node.
C5_OneJobPerDownloadableFile ==
    (ListingOver /\ AllListed) =>
        /\ JobNodes = { n \in Nodes : Reach(n) /\ tree[n].type = "file" /\ tree[n].has_url }
        /\ Len(files_to_download) = Cardinality(JobNodes)
        /\ \A j \in DOMAIN files_to_download :
              LET n == files_to_download[j].download_url
              IN  files_to_download[j].file_path = IF n = 1 THEN <<Name(1)>> ELSE RelPath(n)

\* A walk is over that met a file two directories below the target and
\* skipped a submodule and a symbolic link.
C5_Witness ==
    /\ pc = "pool"
    /\ AllListed
    /\ 6 \in JobNodes
    /\ tree[2] = [type |-> "file", has_url |-> FALSE]
    /\ tree[4].type = "symlink"

\* C6 as stated: a response that is no list fails the fetch and yields no job.
C6_NonListIsError ==
    \A n \in Nodes :
        responses[n] \in {"object", "message"} =>
            /\ result = "none"
            /\ n \notin JobNodes

\* C6, amended: a response that is no list is iterated as a list of one
\* entry: it yields a job exactly when it is a file object with a
\* download_url, and the fetch fails after it only when no file at all was
\* collected or a listing request failed.
C6_NonListWrapped ==
    \A n \in Nodes :
        (responses[n] \in {"object", "message"} /\ pc # "collect") =>
            /\ n \in JobNodes <=>
                  (responses[n] = "object" /\ tree[n].type = "file" /\ tree[n].has_url)
            /\ result = "none" =>
                  (files_to_download = <<>> \/ \E m \in Nodes : responses[m] = "error")

\* The target is a single file: its object is downloaded and the fetch succeeds.
C6_Witness ==
    /\ responses[1] = "object"
    /\ BatchOver
    /\ JobNodes = {1}

\* C7: a spec of three or more segments that is no URL is fetched from the
\* owner and repository it names, with the remaining segments as the path.
C7_SpecOwnerRepoWins ==
    (pc # "resolve" /\ ~spec_is_url /\ Len(spec_segs) >= 3) =>
        /\ target.ok
        /\ pc = "collect"
        /\ target.owner = spec_segs[1]
        /\ target.repo = spec_segs[2]
        /\ target.path = Join(SubSeq(spec_segs, 3, Len(spec_segs)), Slash)

\* A four-segment spec was resolved while --repo was given.
C7_Witness ==
    /\ pc = "collect"
    /\ ~spec_is_url
    /\ Len(spec_segs) = 4
    /\ repo_override = <<"x","/","y">>
    /\ target.owner = <<"o">>
    /\ target.repo = <<"m">>

\* The number of slashes of a string.
Slashes(str) == Cardinality({ i \in 1..Len(str) : str[i] = "/" })

\* C8: a spec of one or two segments that is no URL is fetched from --repo
\* when it is given and from the default repository otherwise, with the whole
\* spec as the path and the given ref; resolution fails exactly when that
\* repository is not of the form owner/repo.
C8_ShortSpecUsesOverrideThenDefault ==
    (pc # "resolve" /\ ~spec_is_url /\ Len(spec_segs) < 3) =>
        LET repo_str == IF repo_override # <<>> THEN repo_override ELSE default_repo
        IN  /\ target.ok <=> Slashes(repo_str) = 1
            /\ target.ok =>
                  /\ target.owner \o Slash \o target.repo = repo_str
                  /\ target.path = skill_spec
                  /\ target.ref = ref
            /\ ~target.ok => (result = "none" /\ temp_dir = "none")

\* A two-segment spec was resolved against the repository given with --repo.
C8_Witness ==
    /\ pc = "collect"
    /\ ~spec_is_url
    /\ Len(spec_segs) = 2
    /\ repo_override = <<"x","/","y">>
    /\ target.owner = <<"x">>
    /\ target.repo = <<"y">>
    /\ target.path = skill_spec

\* C9: a URL https://github.com/<owner>/<repo>/tree/<ref>/<path...> resolves
\* to that owner, repo, ref and path; a URL without /tree/ that resolves has
\* its last segment as the path, the segments before it as owner/repo and
\* the given ref.
C9_UrlResolvesPositionally ==
    (pc # "resolve" /\ spec_is_url /\ \A i \in DOMAIN spec_segs : spec_segs[i] # <<>>) =>
        /\ (Len(spec_segs) >= 5 /\ spec_segs[3] = <<"t","r","e","e">>) =>
              /\ target.ok
              /\ target.owner = spec_segs[1]
              /\ target.repo = spec_segs[2]
              /\ target.ref = spec_segs[4]
              /\ target.path = Join(SubSeq(spec_segs, 5, Len(spec_segs)), Slash)
        /\ (~Contains(skill_spec, TreeSep) /\ target.ok) =>
              /\ target.owner \o Slash \o target.repo = Join(Front(spec_segs), Slash)
              /\ target.path = Last(spec_segs)
              /\ target.ref = ref

\* C10: the completed count grows by one per yielded job and never falls,
\* and when the batch is over the last progress line reported the total.
C10_ProgressReachesTotal ==
    /\ [][completed' = completed \/ completed' = completed + 1]_vars
    /\ [](BatchOver => progress = Len(files_to_download))

\* The jobs a worker of the pool is executing.
Running == { j \in DOMAIN futures : futures[j] = "running" }

\* C11: at most 10 jobs are being executed at any moment; a job that is
\* still queued while the batch runs and no worker takes it means that all 10
\* workers are busy.
C11_AtMostTenRunning ==
    /\ Cardinality(Running) <= 10
    /\ (pc = "pool" /\ ~ENABLED StartJob /\ \E j \in DOMAIN futures : futures[j] = "queued")
          => Cardinality(Running) = 10

\* Ten jobs are being executed and the eleventh waits in the queue.
C11_Witness ==
    /\ pc = "pool"
    /\ Len(files_to_download) > 10
    /\ Cardinality(Running) = 10
    /\ \E j \in DOMAIN futures : futures[j] = "queued"

\* The entries of the returned catalog.
Catalogued == { all_skills[i] : i \in DOMAIN all_skills }

\* C12: once a category's listing failed, the returned catalog holds no entry
\* of that category and still holds every skill of every category whose
\* listing succeeded (here: every skill whose own requests were answered and
\* whose manifest was read).
C12_FailedCategorySkipsOnlyItself ==
    (pc = "found" /\ \E c \in 1..MaxCategories : cat_responses[c] = "raise") =>
        /\ \A c \in 1..MaxCategories : cat_responses[c] = "raise" =>
              \A e \in Catalogued : e.category # CatName(c)
        /\ \A c \in 1..MaxCategories : cat_responses[c] = "list" =>
              \A s \in 1..MaxSkills : md_responses[c][s] \in {"plain", "named"} =>
                 \E e \in Catalogued : e.path = SkillPath(Repo, c, s)

\* C13: a spec returned by _find_skill_by_name is the path of the catalog
\* entry it matched.
C13_FoundSpecIsEntryPath ==
    (pc = "found" /\ found # <<>>) =>
        found = all_skills[MatchIndex(all_skills, skill_spec)].path

====
